---- MODULE Spec2Model ----
(***************************************************************************)
(* The batched simulation engine of the native accessor shim               *)
(* (src/NativeShim/mjaccess.c, "Batched simulation", lines 381-500):       *)
(* pool creation and destruction, parallel stepping by dispatch_apply,     *)
(* masked reset, the macro-generated gathers and the per-slot setters.     *)
(*                                                                         *)
(* The physics engine (mj_makeData, mj_resetData, mj_step, mj_deleteData)  *)
(* is an external library.  It is represented by deterministic operators   *)
(* on a slot's arrays: only the facts the shim relies on are kept (array   *)
(* sizes, the default state, a step that reads the slot's own arrays, its  *)
(* control vector and the shared model).                                   *)
(*                                                                         *)
(* Indices: env_idx and the loop counters of the C code are 0-based; the   *)
(* sequences of the model are 1-based, so slot i of the code is datas[i+1].*)
(***************************************************************************)
EXTENDS Integers, Sequences, FiniteSets, TLC

VARIABLES
    model,      \* the shared mjModel: nq, nv, nu, nbody, opt.iterations
    sim,        \* the caller's pool handle and the MjAccessBatchedSim record
    datas,      \* sim->datas[i]: the arrays of every slot's mjData
    bufs,       \* the eight gather buffers (pointer and contents)
    heap,       \* how often each resource was allocated and released
    hazard,     \* undefined-behaviour events that have happened
    crashed,    \* the process has faulted
    pc,         \* the calling thread: "ready" or "in_step" (inside dispatch_apply)
    task,       \* dispatch_apply iteration i: "copy", "step", "done"
    block,      \* the control buffer captured by the dispatched block
    call,       \* the last API call: op, args, result, n_out
    pre,        \* the state the last API call was entered in
    calls       \* number of API calls made so far

vars == <<model, sim, datas, bufs, heap, hazard, crashed, pc, task, block, call, pre, calls>>

\* ------------------------------------------------------------------ bounds

\* Largest num_envs a configuration asks for.
MaxEnvs == 2

\* Number of API calls in a run.
MaxCalls == 3

\* ------------------------------------------------------------- the model

\* The loaded models the runs start from (mjModel sizes and opt.iterations).
Models ==
    { [nq |-> 3, nv |-> 2, nu |-> 1, nbody |-> 1, iterations |-> 2],
      [nq |-> 2, nv |-> 1, nu |-> 2, nbody |-> 2, iterations |-> 3] }

\* config->solver_iterations values: 0 keeps the model's value.
SolverIterations == {0, 7}

FieldSeq ==
    <<"qpos", "qvel", "xpos", "subtree_com", "cinert", "cvel", "qfrc_actuator", "cfrc_ext">>

Fields == { FieldSeq[k] : k \in 1..Len(FieldSeq) }

\* PerEnvDim with the actuator-force gather at the control dimension.
PerEnvDimActuatorNu(f, m) ==
    CASE f = "qpos"          -> m.nq
      [] f = "qvel"          -> m.nv
      [] f = "xpos"          -> m.nbody * 3
      [] f = "subtree_com"   -> m.nbody * 3
      [] f = "cinert"        -> m.nbody * 10
      [] f = "cvel"          -> m.nbody * 6
      [] f = "qfrc_actuator" -> m.nu
      [] f = "cfrc_ext"      -> m.nbody * 6

\* per_env_expr of each BATCHED_GATHER instantiation.
PerEnvDim(f, m) ==
    CASE f = "qpos"          -> m.nq
      [] f = "qvel"          -> m.nv
      [] f = "xpos"          -> m.nbody * 3
      [] f = "subtree_com"   -> m.nbody * 3
      [] f = "cinert"        -> m.nbody * 10
      [] f = "cvel"          -> m.nbody * 6
      [] f = "qfrc_actuator" -> m.nv
      [] f = "cfrc_ext"      -> m.nbody * 6

\* Number of doubles malloc'ed for each gather buffer in create.
BufLen(f, m, ne) ==
    CASE f = "qpos"          -> ne * m.nq
      [] f = "qvel"          -> ne * m.nv
      [] f = "xpos"          -> ne * m.nbody * 3
      [] f = "subtree_com"   -> ne * m.nbody * 3
      [] f = "cinert"        -> ne * m.nbody * 10
      [] f = "cvel"          -> ne * m.nbody * 6
      [] f = "qfrc_actuator" -> ne * m.nv
      [] f = "cfrc_ext"      -> ne * m.nbody * 6

\* Sizes of the mjData arrays mj_makeData lays out for a model.
FieldLen(f, m) ==
    CASE f = "qpos"          -> m.nq
      [] f = "qvel"          -> m.nv
      [] f = "ctrl"          -> m.nu
      [] f = "xpos"          -> m.nbody * 3
      [] f = "subtree_com"   -> m.nbody * 3
      [] f = "cinert"        -> m.nbody * 10
      [] f = "cvel"          -> m.nbody * 6
      [] f = "qfrc_actuator" -> m.nv
      [] f = "cfrc_ext"      -> m.nbody * 6

Fill(n, v) == [j \in 1..n |-> v]

RECURSIVE SumSeq(_)
SumSeq(s) == IF s = <<>> THEN 0 ELSE Head(s) + SumSeq(Tail(s))

\* mj_makeData / mj_resetData: the model's default state.
DefaultData(m) ==
    [ qpos          |-> Fill(FieldLen("qpos", m), 0),
      qvel          |-> Fill(FieldLen("qvel", m), 0),
      ctrl          |-> Fill(FieldLen("ctrl", m), 0),
      xpos          |-> Fill(FieldLen("xpos", m), 0),
      subtree_com   |-> Fill(FieldLen("subtree_com", m), 0),
      cinert        |-> Fill(FieldLen("cinert", m), 0),
      cvel          |-> Fill(FieldLen("cvel", m), 0),
      qfrc_actuator |-> Fill(FieldLen("qfrc_actuator", m), 0),
      cfrc_ext      |-> Fill(FieldLen("cfrc_ext", m), 0),
      time          |-> 0 ]

\* mj_step(m, d): one step of the external engine on one slot.  The result is
\* a function of the slot's own arrays, its control vector and the model.
mj_step(m, d) ==
    LET c == SumSeq(d.ctrl)
        v == [j \in 1..Len(d.qvel) |-> d.qvel[j] + c]
        q == [j \in 1..Len(d.qpos) |->
                 d.qpos[j] + (IF Len(v) = 0 THEN 0 ELSE v[((j - 1) % Len(v)) + 1])]
        S == SumSeq(q)
        V == SumSeq(v)
    IN  [ qpos          |-> q,
          qvel          |-> v,
          ctrl          |-> d.ctrl,
          xpos          |-> Fill(Len(d.xpos), S + 1),
          subtree_com   |-> Fill(Len(d.subtree_com), S + 2),
          cinert        |-> Fill(Len(d.cinert), S + 3),
          cvel          |-> Fill(Len(d.cvel), V + 4),
          qfrc_actuator |-> Fill(Len(d.qfrc_actuator), c + 5),
          cfrc_ext      |-> Fill(Len(d.cfrc_ext), V + m.iterations),
          time          |-> d.time + 1 ]

\* memcpy(dst + off, src + soff, n) on arrays of doubles, all within bounds.
Memcpy(dst, off, src, soff, n) ==
    [k \in 1..Len(dst) |->
        IF k > off /\ k <= off + n THEN src[soff + (k - off)] ELSE dst[k]]

MemcpyInBounds(dst, off, src, soff, n) ==
    /\ n >= 0
    /\ off >= 0 /\ off + n <= Len(dst)
    /\ soff >= 0 /\ soff + n <= Len(src)

\* ------------------------------------------------------------ resources

\* Contents of a freshly malloc'ed double: indeterminate.
Junk == -1

NullBuf == [ptr |-> "null", mem |-> <<>>]

NoCounts ==
    [ sim   |-> 0,
      datas |-> 0,
      slot  |-> [i \in 1..MaxEnvs + 1 |-> 0],
      buf   |-> [f \in Fields |-> 0] ]

\* Counts of one pass over: the sim record (s), the datas array (a), the slots
\* 1..k and the buffers in B.
Counts(s, a, k, B) ==
    [ sim   |-> s,
      datas |-> a,
      slot  |-> [i \in 1..MaxEnvs + 1 |-> IF i <= k THEN 1 ELSE 0],
      buf   |-> [f \in Fields |-> IF f \in B THEN 1 ELSE 0] ]

Plus(x, y) ==
    [ sim   |-> x.sim + y.sim,
      datas |-> x.datas + y.datas,
      slot  |-> [i \in 1..MaxEnvs + 1 |-> x.slot[i] + y.slot[i]],
      buf   |-> [f \in Fields |-> x.buf[f] + y.buf[f]] ]

Allocated(h, c) == [h EXCEPT !.allocs = Plus(h.allocs, c)]
Released(h, c) == [h EXCEPT !.frees = Plus(h.frees, c)]

LiveBufs == { f \in Fields : bufs[f].ptr # "null" }

\* The state an API call is entered in; call is the call before it and before
\* the slots as that call was entered.
Snapshot ==
    [model |-> model, sim |-> sim, datas |-> datas, bufs |-> bufs, heap |-> heap,
     hazard |-> hazard, call |-> call, before |-> IF call.op = "none" THEN <<>> ELSE pre.datas]

NoArgs == [none |-> TRUE]

\* The calling thread is free to enter an API function.  Calls other than free
\* on a destroyed pool, and calls made while a step is in flight, are lifecycle
\* misuse that the engine leaves to the caller; the actions exclude them.
CanCall == pc = "ready" /\ ~crashed /\ calls < MaxCalls

Returned(op, args, result, n) ==
    call' = [op |-> op, args |-> args, result |-> result, n_out |-> n]

\* The call faults: nothing returns.
Faulted(op, args, tags) ==
    /\ call' = [op |-> op, args |-> args, result |-> "fault", n_out |-> 0]
    /\ crashed' = TRUE
    /\ hazard' = hazard \cup tags

Init ==
    /\ model \in Models
    /\ sim = [handle |-> "null", num_envs |-> 0]
    /\ datas = <<>>
    /\ bufs = [f \in Fields |-> NullBuf]
    /\ heap = [allocs |-> NoCounts, frees |-> NoCounts]
    /\ hazard = {}
    /\ crashed = FALSE
    /\ pc = "ready"
    /\ task = <<>>
    /\ block = <<>>
    /\ call = [op |-> "none", args |-> NoArgs, result |-> "none", n_out |-> 0]
    /\ pre = [model |-> model, sim |-> sim, datas |-> datas, bufs |-> bufs,
              heap |-> heap, hazard |-> hazard, call |-> call, before |-> <<>>]
    /\ calls = 0

\* ----------------------------------------------------------------- create

NullConfig == [null |-> TRUE, num_envs |-> 0, solver_iterations |-> 0]

Configs ==
    [null : {FALSE}, num_envs : -1..MaxEnvs, solver_iterations : SolverIterations]

\* The (model, config) pairs a caller passes: a loaded model with every
\* configuration or none, and the two invalid model handles with a
\* configuration that would be accepted.
CreateArgs ==
    { <<"valid", cfg>> : cfg \in Configs \cup {NullConfig} }
        \cup { <<mh, [null |-> FALSE, num_envs |-> MaxEnvs, solver_iterations |-> 7]>> :
                   mh \in {"null", "no_mj"} }

\* The gather buffers whose malloc is made to fail (as indices of FieldSeq):
\* the first and the last one allocated.
FailableBufs == {1, Len(FieldSeq)}

\* Where an allocation of create returns NULL: nowhere, the calloc of the pool
\* record, the calloc of the slot array, mj_makeData of slot k (0-based), or
\* the malloc of the k-th gather buffer.
AllocFailures(ne) ==
    {<<"none", 0>>, <<"sim", 0>>, <<"datas", 0>>}
        \cup { <<"slot", k>> : k \in 0..ne - 1 }
        \cup { <<"buf", k>> : k \in FailableBufs }

\* CreateArgsInvalid with num_envs < 0 in place of num_envs <= 0.
CreateArgsInvalidNegativeOnly(mh, cfg) ==
    mh = "null" \/ mh = "no_mj" \/ cfg.null \/ cfg.num_envs < 0

\* The guard of create: !model || !model->mj || !config || num_envs <= 0.
CreateArgsInvalid(mh, cfg) ==
    mh = "null" \/ mh = "no_mj" \/ cfg.null \/ cfg.num_envs <= 0

\* if (config->solver_iterations > 0) mj->opt.iterations = ...
SolverOverride(m, cfg) ==
    IF cfg.solver_iterations > 0
    THEN [m EXCEPT !.iterations = cfg.solver_iterations]
    ELSE m

\* The body of mjaccess_batched_free on a live record: mj_deleteData of every
\* non-NULL slot, free(datas), the buffers, free(sim).
FreeLive(h, nslots, B) == Released(h, Counts(1, 1, nslots, B))

\* The configurations of a further pool created on the same model while the
\* pool of the run is live: one environment, with and without the override.
FurtherPoolConfigs ==
    [null : {FALSE}, num_envs : {1}, solver_iterations : SolverIterations]

\* While the pool of the run is live, create makes a further pool on the same
\* model (further): the caller keeps its handle apart and makes no call on it,
\* so of that pool only the effect on the shared model and the heap is kept.
mjaccess_batched_create(mh, cfg, fail) ==
    LET args    == [model |-> mh, config |-> cfg, fail |-> fail]
        ne      == cfg.num_envs
        further == sim.handle = "live"
    IN
    /\ CanCall
    /\ further => (mh = "valid" /\ cfg \in FurtherPoolConfigs /\ fail = <<"none", 0>>)
    /\ calls' = calls + 1
    /\ pre' = Snapshot
    /\ UNCHANGED <<pc, task, block>>
    /\ IF CreateArgsInvalid(mh, cfg) THEN
           /\ fail = <<"none", 0>>
           /\ Returned("create", args, "NULL", 0)
           /\ UNCHANGED <<model, sim, datas, bufs, heap, hazard, crashed>>
       ELSE
           /\ fail \in AllocFailures(ne)
           /\ CASE fail[1] = "sim" ->
                   \* calloc returned NULL; sim->model_ref = mj writes through it
                   /\ Faulted("create", args, {"null_deref"})
                   /\ UNCHANGED <<model, sim, datas, bufs, heap>>
                [] fail[1] = "datas" ->
                   \* sim->datas is NULL; sim->datas[0] = mj_makeData(mj) writes through it
                   /\ Faulted("create", args, {"null_deref"})
                   /\ heap' = Allocated(heap, Counts(1, 0, 1, {}))
                   /\ UNCHANGED <<model, sim, datas, bufs>>
                [] fail[1] = "slot" ->
                   \* slots 0..k-1 were made; mjaccess_batched_free(sim); return NULL
                   /\ heap' = FreeLive(Allocated(heap, Counts(1, 1, fail[2], {})),
                                       fail[2], {})
                   /\ Returned("create", args, "NULL", 0)
                   /\ sim' = [handle |-> "null", num_envs |-> 0]
                   /\ datas' = <<>>
                   /\ bufs' = [f \in Fields |-> NullBuf]
                   /\ UNCHANGED <<model, hazard, crashed>>
                [] OTHER ->
                   LET failed == IF fail[1] = "buf" THEN {FieldSeq[fail[2]]} ELSE {}
                       m2     == SolverOverride(model, cfg)
                   IN
                   /\ model' = m2
                   /\ IF further THEN UNCHANGED <<sim, datas, bufs>>
                      ELSE /\ sim' = [handle |-> "live", num_envs |-> ne]
                           /\ datas' = [i \in 1..ne |-> DefaultData(model)]
                           /\ bufs' = [f \in Fields |->
                                        IF f \in failed THEN NullBuf
                                        ELSE [ptr |-> "heap",
                                              mem |-> Fill(BufLen(f, model, ne), Junk)]]
                   /\ heap' = Allocated(heap, Counts(1, 1, ne, Fields \ failed))
                   /\ Returned("create", args, "pool", 0)
                   /\ UNCHANGED <<hazard, crashed>>

\* ------------------------------------------------------------------- free

\* What a second free of the same pool can do.  The record was released, so
\* sim->datas, sim->num_envs and the buffer pointers are read from freed
\* memory: the allocator aborts or the access faults ("fault"), the record
\* still holds its old contents ("stale": every slot and the slot array are
\* released again, the buffer pointers were set to NULL), or the memory was
\* reused and sim->datas reads as NULL ("reused"); in the last two free(sim)
\* releases the record a second time.
DoubleFreeOutcomes == {"fault", "stale", "reused"}

mjaccess_batched_free(outcome) ==
    /\ CanCall
    /\ calls' = calls + 1
    /\ pre' = Snapshot
    /\ UNCHANGED <<model, pc, task, block>>
    /\ CASE sim.handle = "null" ->
            \* if (!sim) return;
            /\ outcome = "stale"
            /\ Returned("free", NoArgs, "void", 0)
            /\ UNCHANGED <<sim, datas, bufs, heap, hazard, crashed>>
         [] sim.handle = "live" ->
            /\ outcome = "stale"
            /\ heap' = FreeLive(heap, sim.num_envs, LiveBufs)
            /\ sim' = [sim EXCEPT !.handle = "freed"]
            /\ datas' = <<>>
            /\ bufs' = [f \in Fields |-> NullBuf]
            /\ Returned("free", NoArgs, "void", 0)
            /\ UNCHANGED <<hazard, crashed>>
         [] sim.handle = "freed" ->
            /\ outcome \in DoubleFreeOutcomes
            /\ UNCHANGED <<sim, datas, bufs>>
            /\ CASE outcome = "fault" ->
                    /\ Faulted("free", NoArgs, {"use_after_free"})
                    /\ UNCHANGED heap
                 [] outcome = "stale" ->
                    /\ heap' = FreeLive(heap, sim.num_envs, {})
                    /\ hazard' = hazard \cup {"use_after_free", "double_free"}
                    /\ Returned("free", NoArgs, "void", 0)
                    /\ UNCHANGED crashed
                 [] outcome = "reused" ->
                    /\ heap' = Released(heap, Counts(1, 0, 0, {}))
                    /\ hazard' = hazard \cup {"use_after_free", "double_free"}
                    /\ Returned("free", NoArgs, "void", 0)
                    /\ UNCHANGED crashed

\* ------------------------------------------------------------------- step

\* A caller-side array argument: a NULL pointer or n doubles.
NullArg == [null |-> TRUE, data |-> <<>>]

Arg(data) == [null |-> FALSE, data |-> data]

RECURSIVE SeqsOver(_, _)
SeqsOver(S, n) ==
    IF n = 0 THEN {<<>>}
    ELSE { Append(s, x) : s \in SeqsOver(S, n - 1), x \in S }

CtrlValues == {0, 1}

\* A control buffer one double short of the ne * nu the step reads.
ShortCtrl(ne, nu) == Fill(ne * nu - 1, 1)

\* The control buffers a caller passes for a pool of ne environments: a NULL
\* pointer, every buffer of ne * nu doubles, and one that is too short.
CtrlArgs(ne, nu) ==
    {NullArg, Arg(ShortCtrl(ne, nu))} \cup { Arg(c) : c \in SeqsOver(CtrlValues, ne * nu) }

\* What a memcpy that reads past the end of the caller's buffer can do: the
\* access faults, or it reads whatever lies behind the buffer.
OobReadOutcomes == {"fault", "garbage"}

\* The caller's buffer followed by the memory behind it, up to n doubles:
\* indeterminate values.
PastEnd(src, n) == IF Len(src) >= n THEN src ELSE src \o Fill(n - Len(src), Junk)

\* CtrlOffset without the stride: ctrl + i.
CtrlOffsetNoStride(i, nu) == i

\* Offset of iteration i's slice in the control buffer: ctrl + i * nu.
CtrlOffset(i, nu) == i * nu

\* AllIterationsDone of an asynchronous dispatch: the call returns at once.
NoBarrier == TRUE

\* dispatch_apply returns once every iteration of the block has completed.
AllIterationsDone == \A i \in DOMAIN task : task[i] = "done"

\* DispatchCount one short: the last environment gets no iteration.
DispatchCountShort(ne) == ne - 1

\* The iteration count handed to dispatch_apply: (size_t)ne.
DispatchCount(ne) == ne

\* mjaccess_batched_step up to the dispatch: the guard and the fan-out.
mjaccess_batched_step(ctrl) ==
    /\ CanCall
    /\ sim.handle # "freed"
    /\ calls' = calls + 1
    /\ pre' = Snapshot
    /\ UNCHANGED <<model, sim, datas, bufs, heap, hazard, crashed>>
    /\ IF sim.handle = "null" \/ ctrl.null THEN
           \* if (!sim || !ctrl) return;
           /\ ctrl \in {NullArg, Arg(<<>>)}
           /\ Returned("step", [ctrl |-> ctrl], "void", 0)
           /\ UNCHANGED <<pc, task, block>>
       ELSE
           /\ ctrl \in CtrlArgs(sim.num_envs, model.nu)
           /\ call' = [op |-> "step", args |-> [ctrl |-> ctrl],
                       result |-> "running", n_out |-> 0]
           /\ pc' = "in_step"
           /\ task' = [i \in 1..DispatchCount(sim.num_envs) |-> "copy"]
           /\ block' = ctrl.data

\* SlotOf with one slot for every iteration: sim->datas[0].
SlotOfFirst(i) == 1

\* The slot iteration i (0-based) works on: sim->datas[i].
SlotOf(i) == i + 1

\* Iteration i (0-based) of the block: memcpy(d->ctrl, ctrl + i * nu, nu).
TaskCopy(i) ==
    /\ ~crashed
    /\ i + 1 \in DOMAIN task
    /\ task[i + 1] = "copy"
    /\ LET d   == datas[SlotOf(i)]
           src == block
           nu  == model.nu
       IN  IF MemcpyInBounds(d.ctrl, 0, src, CtrlOffset(i, nu), nu) THEN
               /\ datas' = [datas EXCEPT ![SlotOf(i)].ctrl =
                               Memcpy(d.ctrl, 0, src, CtrlOffset(i, nu), nu)]
               /\ task' = [task EXCEPT ![i + 1] = "step"]
               /\ UNCHANGED <<call, crashed, hazard>>
           ELSE \E outcome \in OobReadOutcomes :
               IF outcome = "fault" THEN
                   /\ Faulted("step", call.args, {"oob_read"})
                   /\ UNCHANGED <<datas, task>>
               ELSE
                   /\ datas' = [datas EXCEPT ![SlotOf(i)].ctrl =
                                   Memcpy(d.ctrl, 0, PastEnd(src, CtrlOffset(i, nu) + nu),
                                          CtrlOffset(i, nu), nu)]
                   /\ task' = [task EXCEPT ![i + 1] = "step"]
                   /\ hazard' = hazard \cup {"oob_read"}
                   /\ UNCHANGED <<call, crashed>>
    /\ UNCHANGED <<model, sim, bufs, heap, pc, block, pre, calls>>

\* Iteration i (0-based) of the block: mj_step(m, d).
TaskStep(i) ==
    /\ ~crashed
    /\ i + 1 \in DOMAIN task
    /\ task[i + 1] = "step"
    /\ datas' = [datas EXCEPT ![SlotOf(i)] = mj_step(model, datas[SlotOf(i)])]
    /\ task' = [task EXCEPT ![i + 1] = "done"]
    /\ UNCHANGED <<model, sim, bufs, heap, hazard, crashed, pc, block, call, pre, calls>>

\* dispatch_apply returns, and with it mjaccess_batched_step.
StepReturn ==
    /\ ~crashed
    /\ pc = "in_step"
    /\ AllIterationsDone
    /\ pc' = "ready"
    /\ call' = [call EXCEPT !.result = "void"]
    /\ UNCHANGED <<model, sim, datas, bufs, heap, hazard, crashed, task, block, pre, calls>>

\* ------------------------------------------------------------------ reset

MaskArgs(ne) == {NullArg} \cup { Arg(k) : k \in SeqsOver({0, 1}, ne) }

\* ResetSlots without the test of the mask entry.
ResetSlotsUnmasked(m, ds, mask) ==
    [i \in DOMAIN ds |-> DefaultData(m)]

\* The loop of mjaccess_batched_reset: mj_resetData on the slots whose mask
\* entry is non-zero.
ResetSlots(m, ds, mask) ==
    [i \in DOMAIN ds |-> IF mask[i] # 0 THEN DefaultData(m) ELSE ds[i]]

mjaccess_batched_reset(mask) ==
    /\ CanCall
    /\ sim.handle # "freed"
    /\ calls' = calls + 1
    /\ pre' = Snapshot
    /\ Returned("reset", [mask |-> mask], "void", 0)
    /\ UNCHANGED <<model, sim, bufs, heap, hazard, crashed, pc, task, block>>
    /\ IF sim.handle = "null" \/ mask.null THEN
           \* if (!sim || !reset_mask) return;
           /\ mask \in {NullArg, Arg(<<>>)}
           /\ UNCHANGED datas
       ELSE
           /\ mask \in MaskArgs(sim.num_envs)
           /\ datas' = ResetSlots(model, datas, mask.data)

\* ----------------------------------------------------------------- gather

\* The loop of BATCHED_GATHER: for i in 0..ne-1,
\* memcpy(buf + i * per_env, sim->datas[i]->field, per_env).
RECURSIVE GatherLoop(_, _, _, _, _)
GatherLoop(mem, ds, f, per_env, i) ==
    IF i >= Len(ds) THEN mem
    ELSE GatherLoop(Memcpy(mem, i * per_env, ds[i + 1][f], 0, per_env),
                    ds, f, per_env, i + 1)

GatherInBounds(mem, ds, f, per_env) ==
    \A i \in 0..Len(ds) - 1 : MemcpyInBounds(mem, i * per_env, ds[i + 1][f], 0, per_env)

\* BufField with one buffer for every gather: sim->qpos_buf.
BufFieldShared(f) == "qpos"

\* buf_field of the BATCHED_GATHER instantiation for f: sim->f_buf.
BufField(f) == f

\* mjaccess_batched_get_<f>(sim, n_out); want_n: n_out is not NULL.
mjaccess_batched_get(f, want_n) ==
    LET args    == [field |-> f, want_n |-> want_n]
        ne      == sim.num_envs
        per_env == PerEnvDim(f, model)
        total   == ne * per_env
        n       == IF want_n THEN total ELSE 0
        b       == BufField(f)
    IN
    /\ CanCall
    /\ sim.handle # "freed"
    /\ calls' = calls + 1
    /\ pre' = Snapshot
    /\ UNCHANGED <<model, sim, datas, heap, pc, task, block>>
    /\ CASE sim.handle = "null" ->
            \* if (!sim) { if (n_out) *n_out = 0; return NULL; }
            /\ Returned("get", args, "NULL", 0)
            /\ UNCHANGED <<bufs, hazard, crashed>>
         [] sim.handle = "live" /\ bufs[b].ptr = "null" /\ total > 0 ->
            \* buf is NULL: the first memcpy writes through it
            /\ Faulted("get", args, {"null_deref"})
            /\ UNCHANGED bufs
         [] sim.handle = "live" /\ bufs[b].ptr = "null" /\ total = 0 ->
            /\ Returned("get", args, "NULL", n)
            /\ UNCHANGED <<bufs, hazard, crashed>>
         [] sim.handle = "live" /\ bufs[b].ptr # "null"
                /\ ~GatherInBounds(bufs[b].mem, datas, f, per_env) ->
            /\ Faulted("get", args, {"oob_access"})
            /\ UNCHANGED bufs
         [] OTHER ->
            /\ bufs' = [bufs EXCEPT ![b].mem = GatherLoop(bufs[b].mem, datas, f, per_env, 0)]
            /\ Returned("get", args, "buf", n)
            /\ UNCHANGED <<hazard, crashed>>

\* ---------------------------------------------------------------- scatter

\* Values a caller scatters: n doubles 11, 12, ...
ScatterData(n) == [j \in 1..n |-> 10 + j]

\* The (pointer, length) pairs a caller passes for a field of req doubles: a
\* NULL pointer, a negative length, and buffers of 0..req+1 doubles with
\* their true length.
ScatterArgs(req) ==
    { [null |-> TRUE, data |-> <<>>, n |-> req],
      [null |-> FALSE, data |-> ScatterData(req), n |-> -1] }
        \cup { [null |-> FALSE, data |-> ScatterData(n), n |-> n] : n \in 0..req + 1 }

\* What memcpy(field, values, n) does when n exceeds the field: the bytes past
\* the field land in the slot's next array ("spill" into victim), in allocator
\* padding ("padding"), or the access faults ("fault").
OverrunOutcomes == {"fault", "padding", "spill"}

\* Arrays of the same mjData that an overrun of f can reach.
Victims(f) == {"qpos", "qvel", "ctrl"} \ {f}

\* ScatterCopy that resets the slot to the default state before it copies.
ScatterCopyAfterReset(d, f, vals, n, outcome, victim) ==
    LET d0 == DefaultData(model)
        k  == IF n < Len(d0[f]) THEN n ELSE Len(d0[f])
    IN  [d0 EXCEPT ![f] = Memcpy(d0[f], 0, vals, 0, k)]

\* memcpy(sim->datas[env_idx]->f, values, n * sizeof(double)) with 0 <= n.
ScatterCopy(d, f, vals, n, outcome, victim) ==
    LET req == Len(d[f])
        k   == IF n < req THEN n ELSE req
        d1  == [d EXCEPT ![f] = Memcpy(d[f], 0, vals, 0, k)]
    IN  IF n <= req \/ outcome # "spill" THEN d1
        ELSE LET room == Len(d[victim])
                 over == IF n - req < room THEN n - req ELSE room
             IN [d1 EXCEPT ![victim] = Memcpy(d[victim], 0, vals, req, over)]

\* if (!sim || !values || env_idx < 0 || env_idx >= sim->num_envs) return;
SetEnvGuard(env_idx, vals) ==
    sim.handle = "null" \/ vals.null \/ env_idx < 0 \/ env_idx >= sim.num_envs

\* mjaccess_batched_set_env_qpos / mjaccess_batched_set_env_qvel (f names the field).
mjaccess_batched_set_env(f, env_idx, vals, outcome, victim) ==
    LET args == [field |-> f, env_idx |-> env_idx, values |-> vals]
        req  == FieldLen(f, model)
    IN
    /\ CanCall
    /\ sim.handle # "freed"
    /\ calls' = calls + 1
    /\ pre' = Snapshot
    /\ vals \in ScatterArgs(req)
    /\ UNCHANGED <<model, sim, bufs, heap, pc, task, block>>
    /\ IF SetEnvGuard(env_idx, vals) THEN
           /\ outcome = "padding" /\ victim = "ctrl"
           /\ Returned("set_env", args, "void", 0)
           /\ UNCHANGED <<datas, hazard, crashed>>
       ELSE IF vals.n >= 0 /\ vals.n <= req THEN
           /\ outcome = "padding" /\ victim = "ctrl"
           /\ datas' = [datas EXCEPT ![env_idx + 1] =
                           ScatterCopy(datas[env_idx + 1], f, vals.data, vals.n, outcome, victim)]
           /\ Returned("set_env", args, "void", 0)
           /\ UNCHANGED <<hazard, crashed>>
       ELSE IF vals.n < 0 \/ outcome = "fault" THEN
           \* a negative n converts to a huge size_t
           /\ outcome = "fault" /\ victim = "ctrl"
           /\ Faulted("set_env", args, {"oob_write"})
           /\ UNCHANGED datas
       ELSE
           /\ victim \in Victims(f)
           /\ outcome = "spill" \/ victim = "ctrl"
           /\ datas' = [datas EXCEPT ![env_idx + 1] =
                           ScatterCopy(datas[env_idx + 1], f, vals.data, vals.n, outcome, victim)]
           /\ hazard' = hazard \cup {"oob_write"}
           /\ Returned("set_env", args, "void", 0)
           /\ UNCHANGED crashed

mjaccess_batched_set_env_qpos(env_idx, vals, outcome, victim) ==
    mjaccess_batched_set_env("qpos", env_idx, vals, outcome, victim)

mjaccess_batched_set_env_qvel(env_idx, vals, outcome, victim) ==
    mjaccess_batched_set_env("qvel", env_idx, vals, outcome, victim)

\* ------------------------------------------------------------------- next

\* The (env_idx, values) pairs a caller passes for field f: every buffer for
\* the slots of the pool, a full-length buffer for the indices around them.
SetEnvArgs(f) ==
    LET req == FieldLen(f, model) IN
    { <<i, v>> : i \in 0..sim.num_envs - 1, v \in ScatterArgs(req) }
        \cup { <<i, [null |-> FALSE, data |-> ScatterData(req), n |-> req]>> :
                   i \in {-1, sim.num_envs} }

Next ==
    \/ \E a \in CreateArgs, fail \in AllocFailures(MaxEnvs) :
          mjaccess_batched_create(a[1], a[2], fail)
    \/ \E outcome \in DoubleFreeOutcomes : mjaccess_batched_free(outcome)
    \/ \E ctrl \in CtrlArgs(sim.num_envs, model.nu) \cup {Arg(<<>>)} : mjaccess_batched_step(ctrl)
    \/ \E i \in 0..MaxEnvs : TaskCopy(i)
    \/ \E i \in 0..MaxEnvs : TaskStep(i)
    \/ StepReturn
    \/ \E mask \in MaskArgs(sim.num_envs) \cup {Arg(<<>>)} : mjaccess_batched_reset(mask)
    \/ \E f \in Fields, want_n \in BOOLEAN : mjaccess_batched_get(f, want_n)
    \/ \E a \in SetEnvArgs("qpos"), outcome \in OverrunOutcomes, victim \in Victims("qpos") :
          mjaccess_batched_set_env_qpos(a[1], a[2], outcome, victim)
    \/ \E a \in SetEnvArgs("qvel"), outcome \in OverrunOutcomes, victim \in Victims("qvel") :
          mjaccess_batched_set_env_qvel(a[1], a[2], outcome, victim)

Spec == Init /\ [][Next]_vars

\* ------------------------------------------- single-environment reference

\* mjaccess_set_ctrl(data, ctrl, n) on a valid data handle.
mjaccess_set_ctrl(d, c, n) ==
    IF n <= 0 THEN d ELSE [d EXCEPT !.ctrl = Memcpy(d.ctrl, 0, c, 0, n)]

\* mjaccess_step(model, data) on valid handles.
mjaccess_step(m, d) == mj_step(m, d)

\* ----------------------------------------------------------------- claims

\* controls[i*nu .. i*nu+nu) of a flat control buffer (i is 0-based).
ControlSlice(c, i, nu) == [j \in 1..nu |-> c[i * nu + j]]

\* Entries [i*dim, (i+1)*dim) of a flat buffer (i is 0-based).
Segment(mem, i, dim) == [j \in 1..dim |-> mem[i * dim + j]]

\* The last call was a batched step that ran the batch, on a control buffer
\* of N * nu doubles, and has returned.
StepReturned(c, s) ==
    /\ c.op = "step" /\ c.result = "void" /\ s.handle = "live" /\ ~c.args.ctrl.null
    /\ Len(c.args.ctrl.data) = s.num_envs * model.nu

\* Slot i after one independent single-environment step from ds[i+1] with its
\* slice of the control buffer c.
IndependentStep(ds, c, i) ==
    mjaccess_step(model,
        mjaccess_set_ctrl(ds[i + 1], ControlSlice(c, i, model.nu), model.nu))

\* C1: when mjaccess_batched_step has returned, every slot i holds the control
\* slice controls[i*nu .. i*nu+nu), has advanced by exactly one step, and equals
\* the result of an independent single-environment step (set ctrl, then step)
\* from its pre-state, for every interleaving of the parallel iterations.
C1_BatchedStepMatchesIndependentSteps ==
    StepReturned(call, pre.sim) =>
        /\ Len(datas) = pre.sim.num_envs
        /\ \A i \in 0..pre.sim.num_envs - 1 :
              /\ datas[i + 1].ctrl = ControlSlice(call.args.ctrl.data, i, model.nu)
              /\ datas[i + 1].time = pre.datas[i + 1].time + 1
              /\ datas[i + 1] = IndependentStep(pre.datas, call.args.ctrl.data, i)

\* A batched step of two environments with different control slices has returned.
C1_Witness ==
    /\ StepReturned(call, pre.sim)
    /\ sim.num_envs = 2
    /\ call.args.ctrl.data = <<1, 0>>
    /\ datas[1] # datas[2]
    /\ datas[1].time = 1

\* C2: the caller regains control from mjaccess_batched_step only when every
\* iteration has completed, and a gather that returns right after a step holds
\* the post-step values of every environment.
C2_StepIsFullBarrier ==
    /\ pc = "ready" => \A i \in DOMAIN task : task[i] = "done"
    /\ (call.op = "get" /\ call.result = "buf" /\ StepReturned(pre.call, pre.sim)) =>
          \A i \in 0..sim.num_envs - 1 :
              Segment(bufs[call.args.field].mem, i, PerEnvDim(call.args.field, model))
                  = IndependentStep(pre.before, pre.call.args.ctrl.data, i)[call.args.field]

\* A gather of qpos has returned right after a batched step of two environments
\* that changed qpos in one of them.
C2_Witness ==
    /\ call.op = "get" /\ call.result = "buf" /\ call.args.field = "qpos"
    /\ StepReturned(pre.call, pre.sim)
    /\ sim.num_envs = 2
    /\ pre.call.args.ctrl.data = <<0, 1>>
    /\ pre.before[2].qpos # datas[2].qpos
    /\ Segment(bufs["qpos"].mem, 1, model.nq) = datas[2].qpos

\* The last call was a masked reset that ran on a live pool.
ResetRan == call.op = "reset" /\ pre.sim.handle = "live" /\ ~call.args.mask.null

\* C3: after mjaccess_batched_reset(pool, mask) every slot whose mask entry is
\* true holds the model's default state and every other slot is as it was when
\* the call was entered.
C3_MaskedReset ==
    ResetRan =>
        /\ Len(datas) = Len(pre.datas)
        /\ \A i \in 0..pre.sim.num_envs - 1 :
              datas[i + 1] = IF call.args.mask.data[i + 1] # 0
                             THEN DefaultData(model)
                             ELSE pre.datas[i + 1]

\* A reset with the mask true only at slot 1, on two stepped slots.
C3_Witness ==
    /\ ResetRan
    /\ sim.num_envs = 2
    /\ call.args.mask.data = <<0, 1>>
    /\ pre.datas[1] # DefaultData(model)
    /\ pre.datas[2] # DefaultData(model)
    /\ datas[1] = pre.datas[1]
    /\ datas[2] = DefaultData(model)

\* Undefined-behaviour events of the last call.
NewHazards == hazard \ pre.hazard

\* The last call was a per-slot scatter that passed its guard.
ScatterRan ==
    /\ call.op = "set_env"
    /\ pre.sim.handle = "live"
    /\ ~call.args.values.null
    /\ call.args.env_idx >= 0 /\ call.args.env_idx < pre.sim.num_envs

Min(a, b) == IF a < b THEN a ELSE b

\* C4: a per-slot scatter with any length len copies exactly min(len, requiredLen)
\* leading elements into the field of slot i, leaves the rest of the field as it
\* was, and never writes outside the field.
C4_ScatterTruncates ==
    ScatterRan =>
        LET f   == call.args.field
            i   == call.args.env_idx
            req == FieldLen(f, model)
            k   == Min(call.args.values.n, req)
        IN  /\ call.result = "void"
            /\ "oob_write" \notin NewHazards
            /\ \A j \in 1..req :
                  datas[i + 1][f][j] = IF j <= k THEN call.args.values.data[j]
                                       ELSE pre.datas[i + 1][f][j]

\* Some resource is released more often in h than it was allocated.
DoubleReleased(h) ==
    \/ h.frees.sim > h.allocs.sim
    \/ h.frees.datas > h.allocs.datas
    \/ \E i \in DOMAIN h.frees.slot : h.frees.slot[i] > h.allocs.slot[i]
    \/ \E f \in Fields : h.frees.buf[f] > h.allocs.buf[f]

\* C5: mjaccess_batched_free on a null or an already destroyed pool is a no-op
\* and does not fault: nothing is released twice and no released memory is used.
C5_DestroyIsIdempotent ==
    call.op = "free" =>
        /\ call.result = "void"
        /\ DoubleReleased(heap) => DoubleReleased(pre.heap)
        /\ NewHazards \cap {"use_after_free", "double_free"} = {}
        /\ pre.sim.handle # "live" => heap = pre.heap

\* Everything allocated during the last call was released during it.
CallBalanced == Plus(heap.allocs, pre.heap.frees) = Plus(heap.frees, pre.heap.allocs)

\* C6: if any allocation of mjaccess_batched_create fails, create reports
\* failure, everything allocated so far is released exactly once and no pool
\* is returned or left alive.
C6_CreateFailureIsClean ==
    (call.op = "create" /\ call.args.fail[1] # "none") =>
        /\ call.result = "NULL"
        /\ ~crashed
        /\ CallBalanced
        /\ sim.handle # "live"

\* C7: mjaccess_batched_create with num_envs <= 0, a null or invalid model
\* handle or a null config returns NULL, allocates nothing and leaves the
\* shared model (its solver-iteration count) as it was.
C7_CreateRejectsInvalidArgs ==
    (/\ call.op = "create"
     /\ \/ call.args.model # "valid"
        \/ call.args.config.null
        \/ call.args.config.num_envs <= 0) =>
        /\ call.result = "NULL"
        /\ heap = pre.heap
        /\ model = pre.model
        /\ sim = pre.sim /\ datas = pre.datas /\ bufs = pre.bufs
        /\ ~crashed

\* create was called with num_envs = 0 and a solver-iteration override.
C7_Witness ==
    /\ call.op = "create"
    /\ call.args.model = "valid"
    /\ ~call.args.config.null
    /\ call.args.config.num_envs = 0
    /\ call.args.config.solver_iterations > 0
    /\ call.result = "NULL"

\* The last call was a gather on a live pool.
GatherCalled == call.op = "get" /\ pre.sim.handle = "live"

\* C8: every gather on a live pool reports length N * perEnvDim(f) and returns
\* a buffer of that length whose entries [i*perEnvDim, (i+1)*perEnvDim) are
\* slot i's values of f at call time, for every i.
C8_GatherLayout ==
    GatherCalled =>
        LET f   == call.args.field
            dim == PerEnvDim(f, model)
            ne  == pre.sim.num_envs
        IN  /\ call.result = "buf"
            /\ call.args.want_n => call.n_out = ne * dim
            /\ Len(bufs[f].mem) = ne * dim
            /\ \A i \in 0..ne - 1 : Segment(bufs[f].mem, i, dim) = pre.datas[i + 1][f]

\* C9: a per-slot scatter with slot index outside 0..N-1 changes no slot; with
\* the index in range it changes only the named field of that slot.
C9_ScatterFrame ==
    (call.op = "set_env" /\ pre.sim.handle = "live" /\ ~call.args.values.null) =>
        LET i == call.args.env_idx IN
        IF i < 0 \/ i >= pre.sim.num_envs
        THEN datas = pre.datas
        ELSE /\ \A k \in 1..Len(pre.datas) : k # i + 1 => datas[k] = pre.datas[k]
             /\ \A g \in DOMAIN datas[i + 1] :
                   g # call.args.field => datas[i + 1][g] = pre.datas[i + 1][g]

\* The per-environment dimension the specification assigns to each field.
ClaimedDim(f, m) ==
    CASE f = "qpos"          -> m.nq
      [] f = "qvel"          -> m.nv
      [] f = "xpos"          -> m.nbody * 3
      [] f = "subtree_com"   -> m.nbody * 3
      [] f = "cinert"        -> m.nbody * 10
      [] f = "cvel"          -> m.nbody * 6
      [] f = "qfrc_actuator" -> m.nu
      [] f = "cfrc_ext"      -> m.nbody * 6

\* The same with the actuator-force field (qfrc_actuator, a generalized force)
\* at the velocity dimension.
AmendedDim(f, m) ==
    IF f = "qfrc_actuator" THEN m.nv ELSE ClaimedDim(f, m)

SameDims(m1, m2) ==
    m1.nq = m2.nq /\ m1.nv = m2.nv /\ m1.nu = m2.nu /\ m1.nbody = m2.nbody

\* The last call was a gather that returned the buffer and its length.
GatherReported == call.op = "get" /\ call.result = "buf" /\ call.args.want_n

\* C10 as stated: every gather reports N times the dimension the specification
\* assigns to its field, the actuator-force field at the control dimension nu.
C10_ClaimedDims ==
    GatherReported => call.n_out = sim.num_envs * ClaimedDim(call.args.field, model)

\* C10 as amended: every gather reports N times the dimension of its field,
\* the actuator-force field at the velocity dimension nv; no call changes the
\* model's dimensions.
C10_AmendedDims ==
    /\ SameDims(model, pre.model)
    /\ GatherReported => call.n_out = sim.num_envs * AmendedDim(call.args.field, model)

\* A gather of the actuator-force field on a model with nv # nu has returned.
C10_Witness ==
    /\ GatherReported
    /\ call.args.field = "qfrc_actuator"
    /\ model.nv # model.nu
    /\ sim.num_envs = 2
    /\ call.n_out = 2 * model.nv

\* Every slot of ds holds the same state.
Uniform(ds) == \A i, j \in DOMAIN ds : ds[i] = ds[j]

\* Every environment's slice of the control buffer c is the same.
UniformCtrl(c, ne, nu) ==
    \A i \in 0..ne - 1 : ControlSlice(c, i, nu) = ControlSlice(c, 0, nu)

\* The last call was a reset of a live pool whose mask selects every slot.
ResetAll == ResetRan /\ \A i \in DOMAIN call.args.mask.data : call.args.mask.data[i] # 0

\* C11: the slots are identical after create and after an all-true reset; a
\* batched step with identical control slices takes identical slots to
\* identical slots; and a gather that returns on identical slots holds
\* identical per-environment segments.  By induction on k this is parity after
\* k such steps, for every k >= 0 and every gather field.
C11_Parity ==
    /\ (call.op = "create" /\ call.result = "pool" /\ pre.sim.handle # "live") =>
          Uniform(datas)
    /\ ResetAll => Uniform(datas)
    /\ (/\ StepReturned(call, pre.sim)
        /\ Uniform(pre.datas)
        /\ UniformCtrl(call.args.ctrl.data, pre.sim.num_envs, model.nu)) => Uniform(datas)
    /\ (call.op = "get" /\ call.result = "buf" /\ Uniform(pre.datas)) =>
          LET f   == call.args.field
              dim == PerEnvDim(f, model)
          IN  \A i \in 0..sim.num_envs - 1 :
                  Segment(bufs[f].mem, i, dim) = Segment(bufs[f].mem, 0, dim)

\* A gather of qvel has returned after one batched step of two fresh slots
\* with the same non-zero control slice for both: both segments hold the
\* stepped values.
C11_Witness ==
    /\ call.op = "get" /\ call.result = "buf" /\ call.args.field = "qvel"
    /\ StepReturned(pre.call, pre.sim)
    /\ sim.num_envs = 2
    /\ Uniform(pre.before)
    /\ UniformCtrl(pre.call.args.ctrl.data, 2, model.nu)
    /\ pre.call.args.ctrl.data[1] = 1
    /\ Segment(bufs["qvel"].mem, 0, model.nv) = Segment(bufs["qvel"].mem, 1, model.nv)
    /\ Segment(bufs["qvel"].mem, 1, model.nv) = datas[2].qvel
    /\ datas[2].qvel # DefaultData(model).qvel

\* Iteration i of the dispatched block takes a step.
TaskRuns(i) == TaskCopy(i) \/ TaskStep(i)

\* What iteration i writes to its slot d, given only d, the model and the
\* captured control buffer.
OwnEffect(i, d) ==
    IF task[i + 1] = "copy"
    THEN mjaccess_set_ctrl(d, ControlSlice(block, i, model.nu), model.nu)
    ELSE mjaccess_step(model, d)

\* An iteration that has not finished can take its next step whatever the
\* other iterations have done.
NoTaskWaits ==
    \A i \in 0..MaxEnvs :
        (~crashed /\ i + 1 \in DOMAIN task /\ task[i + 1] # "done") => ENABLED TaskRuns(i)

\* A step of iteration i changes slot i only, as a function of slot i, the
\* model and the control buffer, and leaves the model, the control buffer, the
\* pool and the other iterations as they are.
TaskIsolated(i) ==
    TaskRuns(i) =>
        /\ \A k \in DOMAIN datas : k # i + 1 => datas'[k] = datas[k]
        /\ \A k \in DOMAIN task : k # i + 1 => task'[k] = task[k]
        /\ UNCHANGED <<model, block, sim, bufs>>
        /\ MemcpyInBounds(datas[i + 1].ctrl, 0, block, i * model.nu, model.nu) =>
               datas'[i + 1] = OwnEffect(i, datas[i + 1])

\* C12: during a batched step every iteration reads and writes only the slot
\* of its own index, besides reading the model and the control buffer, which
\* no iteration writes; and no iteration waits for another.
C12_TasksAreIsolated ==
    /\ []NoTaskWaits
    /\ [][\A i \in 0..MaxEnvs : TaskIsolated(i)]_vars

\* Inside a batched step of two environments, iteration 1 has finished and
\* changed its slot while iteration 0 has not begun.
C12_Witness ==
    /\ pc = "in_step"
    /\ Len(task) = 2
    /\ Len(block) = 2 * model.nu
    /\ task[1] = "copy" /\ task[2] = "done"
    /\ datas[1] = pre.datas[1]
    /\ datas[2] # pre.datas[2]
    /\ datas[2] = IndependentStep(pre.datas, block, 1)

\* The calls of the batch engine other than create.
NonCreateOps == {"step", "reset", "get", "set_env", "free"}

\* C13: the only write of the batch engine to the shared model is the
\* solver-iteration override of a create that is given a value > 0; step,
\* reset, gather, scatter and destroy leave the model as it is, also while a
\* step is in flight; and no call, the creation of a further pool on the same
\* model included, changes the model under a pool that is live.
C13_ModelFixedAfterCreate ==
    /\ call.op \in NonCreateOps => model = pre.model
    /\ (call.op = "create" /\ model # pre.model) =>
          /\ call.result = "pool"
          /\ call.args.config.solver_iterations > 0
          /\ model = [pre.model EXCEPT !.iterations = call.args.config.solver_iterations]
    /\ (pre.sim.handle = "live" /\ sim.handle = "live") => model = pre.model

\* C14: a batched step that has ended read nothing outside the control
\* buffer; on a live pool with a buffer of at least N * nu doubles it has
\* returned with every slot holding its slice and advanced once; with a null
\* pool, a null buffer or a buffer that is too short it has returned with no
\* slot changed.
C14_StepAllOrNothing ==
    (call.op = "step" /\ call.result # "running") =>
        LET c  == call.args.ctrl
            ne == pre.sim.num_envs
        IN  /\ "oob_read" \notin NewHazards
            /\ call.result = "void"
            /\ IF pre.sim.handle = "live" /\ ~c.null /\ Len(c.data) >= ne * model.nu
               THEN \A i \in 0..ne - 1 : datas[i + 1] = IndependentStep(pre.datas, c.data, i)
               ELSE datas = pre.datas

\* Position of a slot in its lifecycle: 0 is Initialized, k > 0 is Stepped(k).
\* It is the step count mj_resetData sets to zero and mj_step advances.
Phase(d) == d.time

\* The last call ran on the live pool and left it alive.
PoolCall ==
    /\ pre.sim.handle = "live"
    /\ call.op \in {"step", "reset", "get", "set_env", "create"}

\* The mask of the last call, a reset, selects slot i (1-based).
ResetSelects(i) ==
    /\ call.op = "reset" /\ ~call.args.mask.null
    /\ call.args.mask.data[i] # 0

\* The caller can start a batched step on the pool.
Steppable ==
    ENABLED mjaccess_batched_step(Arg(Fill(sim.num_envs * model.nu, 0)))

\* C15: create leaves every slot Initialized; a returned batched step takes
\* every slot from Stepped(k) to Stepped(k+1); a slot goes back to Initialized
\* only in a reset whose mask selects it, and step, gather, scatter and the
\* creation of a further pool never lower a slot's position; no such call
\* changes N or ends the pool, and as long as the process has not faulted the
\* pool can be stepped again.
C15_SlotLifecycle ==
    /\ (call.op = "create" /\ call.result = "pool" /\ pre.sim.handle # "live") =>
          /\ Len(datas) = call.args.config.num_envs
          /\ \A i \in DOMAIN datas : Phase(datas[i]) = 0 /\ datas[i] = DefaultData(model)
    /\ PoolCall =>
          /\ sim = pre.sim
          /\ Len(datas) = sim.num_envs
          /\ \A i \in DOMAIN datas :
                /\ (call.op = "step" /\ call.result = "void" /\ ~call.args.ctrl.null) =>
                       Phase(datas[i]) = Phase(pre.datas[i]) + 1
                /\ call.op = "step" =>
                       Phase(datas[i]) \in {Phase(pre.datas[i]), Phase(pre.datas[i]) + 1}
                /\ call.op \in {"get", "set_env", "create"} =>
                       Phase(datas[i]) = Phase(pre.datas[i])
                /\ call.op = "reset" =>
                       Phase(datas[i]) = IF ResetSelects(i) THEN 0 ELSE Phase(pre.datas[i])
                /\ Phase(datas[i]) < Phase(pre.datas[i]) => ResetSelects(i)
    /\ (sim.handle = "live" /\ CanCall) => Steppable

\* A scatter into slot 0 has returned after a batched step of two
\* environments: both slots are still at Stepped(1), and slot 0 holds the
\* scattered values.
C15_Witness ==
    /\ call.op = "set_env" /\ call.result = "void" /\ call.args.env_idx = 0
    /\ StepReturned(pre.call, pre.sim)
    /\ sim.num_envs = 2
    /\ Phase(pre.before[1]) = 0 /\ Phase(pre.before[2]) = 0
    /\ Phase(datas[1]) = 1 /\ Phase(datas[2]) = 1
    /\ datas[1] # pre.datas[1]

\* C16: no call on a live pool allocates, releases or moves a gather buffer;
\* a gather of f changes no slot and no buffer other than f's; step (also
\* while in flight), reset, scatter and the creation of a further pool leave
\* every gather buffer as it is, so a buffer keeps the values of the last
\* gather of its field.
C16_GatherBuffersFixed ==
    (pre.sim.handle = "live" /\ call.op \in {"get", "step", "reset", "set_env", "create"}) =>
        /\ \A g \in Fields :
              /\ bufs[g].ptr = pre.bufs[g].ptr
              /\ Len(bufs[g].mem) = Len(pre.bufs[g].mem)
        /\ call.op # "create" => heap = pre.heap
        /\ call.op = "get" =>
              /\ datas = pre.datas
              /\ \A g \in Fields : g # call.args.field => bufs[g] = pre.bufs[g]
        /\ call.op # "get" => bufs = pre.bufs

\* A batched step of two environments has returned after a gather of qpos:
\* the buffer still holds the gathered values, which the slots no longer have.
C16_Witness ==
    /\ StepReturned(call, pre.sim)
    /\ pre.call.op = "get" /\ pre.call.result = "buf" /\ pre.call.args.field = "qpos"
    /\ sim.num_envs = 2
    /\ bufs["qpos"].ptr = "heap"
    /\ \A i \in 0..1 : Segment(bufs["qpos"].mem, i, model.nq) = pre.datas[i + 1].qpos
    /\ datas[1].qpos # pre.datas[1].qpos

====
